---- MODULE Spec2Model ----
(***************************************************************************)
(* Model of the two command-line scripts of the repository:                *)
(*   scripts/fine-tune-model.py            (specification Spec)            *)
(*   scripts/convert-humor-model-to-onnx.py (specification SpecConvert)    *)
(* and of the two pure helpers of the fine-tuner, checked on their own:    *)
(*   compute_metrics                        (specification SpecMetrics)    *)
(*   prepare_dataset                        (specification SpecSplit)      *)
(* Calls into transformers / datasets / sklearn are modelled by what the   *)
(* called routine does with the arguments the scripts pass.                *)
(***************************************************************************)
EXTENDS Integers, Sequences, FiniteSets, TLC

\* ------------------------------------------------------------- bounds
MaxPos    == 20   \* label-1 lines in a dataset file
MaxNeg    == 1    \* label-0 lines
MaxOther  == 1    \* lines whose label is neither 0 nor 1
MaxBlank  == 1    \* blank lines
MaxBad    == 1    \* lines that are not valid JSON
MaxEpochs == 4    \* largest --epochs value
MaxF1     == 2    \* validation F1 takes the ordered levels 0..MaxF1
MaxEval   == 4    \* examples in one compute_metrics call
MaxData   == 4    \* examples in one prepare_dataset call
MaxLogit  == 2    \* smoke-test logits range over 0..MaxLogit

\* ------------------------------------------------- program constants
MinExamples    == 20   \* len(data) < 20
ValSplitPct    == 10   \* val_split=0.1, in percent
Seed           == 42   \* seed=42
Patience       == 2    \* early_stopping_patience=2
SaveTotalLimit == 2    \* save_total_limit=2

VARIABLES
    \* ---- fine-tuner process
    missing,           \* libraries that are not installed
    pc,                \* position of the fine-tuner
    exitStatus,        \* process exit status, meaningful when pc = "exited"
    exitCause,         \* how the process ended
    done,              \* steps performed so far
    out,               \* kinds of message printed so far
    epochs,            \* args.epochs
    file,              \* lines of the dataset file read
    data,              \* the list load_training_data returns
    response,          \* the operator's answer to the prompt
    train_len,         \* len(train_dataset)
    val_len,           \* len(val_dataset)
    epoch,             \* epochs trained so far
    f1hist,            \* validation F1 of each evaluation round
    best_metric,       \* state.best_metric (-1: None)
    best_ckpt,         \* state.best_model_checkpoint (0: None)
    ckpts,             \* checkpoint directories on disk, by epoch
    patience_counter,  \* early_stopping_patience_counter
    should_stop,       \* control.should_training_stop
    model,             \* weights held by the model: 0 base, k after epoch k
    saved,             \* weights saved to the output directory (-1: none)
    raised,            \* the exception that ended the process, if any
    \* ---- converter process
    cmissing,          \* libraries that are not installed
    cpc,               \* position of the converter
    cexit,             \* process exit status, meaningful when cpc = "exited"
    cdone,             \* pipeline steps completed
    cout,              \* kinds of message printed so far
    csaved,            \* artifacts written to models/humor-detector
    cprinted,          \* the predictions printed by the smoke test
    craised,           \* the step whose exception ended the run, if any
    chandled,          \* the except Exception handler ran
    \* ---- one call of compute_metrics
    eval_pred,         \* rows of class scores with their ground-truth label
    metrics,           \* the dictionary returned
    mpc,               \* "ready" before the call, "done" after it
    \* ---- calls of prepare_dataset on one list
    examples,          \* the list passed as data
    seeded,            \* the permutation the generator seeded with 42 yields
    splits,            \* the (train, validation) pairs returned so far
    spc                \* "ready", or "error" once the split raised

ftvars == <<missing, pc, exitStatus, exitCause, done, out, epochs, file, data,
            response, train_len, val_len, epoch, f1hist, best_metric,
            best_ckpt, ckpts, patience_counter, should_stop, model, saved,
            raised>>

cvars == <<cmissing, cpc, cexit, cdone, cout, csaved, cprinted, craised,
           chandled>>

mvars == <<eval_pred, metrics, mpc>>
svars == <<examples, seeded, splits, spc>>

\* what each process leaves alone
notFt == <<cvars, mvars, svars>>
notConv == <<ftvars, mvars, svars>>
notMetrics == <<ftvars, cvars, svars>>
notSplit == <<ftvars, cvars, mvars>>

\* ------------------------------------------------------------ helpers
Rep(x, k) == [i \in 1..k |-> x]

RECURSIVE SeqMax(_)
SeqMax(s) == IF Len(s) = 0 THEN -1
             ELSE LET m == SeqMax(Tail(s)) IN IF Head(s) > m THEN Head(s) ELSE m

\* -------------------------------------------------- the import guard
GuardedLibs == {"transformers", "datasets", "torch"}
Libs == GuardedLibs \cup {"sklearn"}

\* ------------------------------------------------- the dataset file
BlankLine == [kind |-> "blank", label |-> 0]
BadLine   == [kind |-> "bad", label |-> 0]
JsonLine(l) == [kind |-> "json", label |-> l]

DatasetFiles ==
    { Rep(BlankLine, b) \o Rep(JsonLine(1), p) \o Rep(JsonLine(2), o)
        \o Rep(JsonLine(0), n) \o Rep(BadLine, x) :
        b \in 0..MaxBlank, p \in 0..MaxPos, o \in 0..MaxOther,
        n \in 0..MaxNeg, x \in 0..MaxBad }

\* for line in f: if line.strip(): data.append(json.loads(line))
IsNonBlank(line) == line.kind # "blank"
NonBlank(f) == SelectSeq(f, IsNonBlank)
ParseFails(f) == \E i \in DOMAIN f : f[i].kind = "bad"
Parsed(f) == [i \in DOMAIN NonBlank(f) |-> [label |-> NonBlank(f)[i].label]]

\* ----------------------------------------------------- the prompt
Responses == { <<>>, <<"y">>, <<"Y">>, <<"n">>, <<"N">>, <<"y", "e", "s">>,
               <<" ", "y">>, <<"y", " ">> }

LowerChar(c) == CASE c = "Y" -> "y" [] c = "N" -> "n" [] OTHER -> c
Lower(s) == [i \in DOMAIN s |-> LowerChar(s[i])]

\* a slip: only an explicit "n" declines
ProceedsUnlessNo(r) == Lower(r) # <<"n">>

\* response.lower() != 'y' leaves; Proceeds is its negation
Proceeds(r) == Lower(r) = <<"y">>

\* ------------------------------------------------ class statistics
\* positive = sum(1 for d in data if d['label'] == 1)
IsPositive(d) == d.label = 1
positive(d) == Len(SelectSeq(d, IsPositive))
\* a slip: the positives are not subtracted
NegativeIsTotal(d) == Len(d)

\* negative = len(data) - positive
negative(d) == Len(d) - positive(d)

\* ------------------------------------------- train_test_split sizes
\* n_test = ceil(test_size * n_samples); n_train = n_samples - n_test
NTest(n) == (n * ValSplitPct + 99) \div 100
NTrain(n) == n - NTest(n)

\* ------------------------------------------------ the training loop
F1Levels == 0..MaxF1

\* EarlyStoppingCallback.check_metric_value, greater_is_better, threshold 0
Improves(metric, best) == best = -1 \/ metric > best

\* Trainer._sorted_checkpoints: by step, the best checkpoint moved up so
\* that it is not among the first ones
SortedCheckpoints(cks, best) ==
    LET n == Len(cks)
        IsOther(x) == x # best
        rest == SelectSeq(cks, IsOther)
    IN  IF best # 0 /\ (\E i \in 1..n : cks[i] = best /\ i < n - 1)
        THEN SubSeq(rest, 1, n - 2) \o <<best>> \o <<rest[n - 1]>>
        ELSE cks

\* a slip: the oldest checkpoints go first, whichever is the best
RotateOldestFirst(cks, best) ==
    LET n == Len(cks)
    IN  IF n <= SaveTotalLimit THEN cks ELSE SubSeq(cks, n - SaveTotalLimit + 1, n)

\* Trainer._rotate_checkpoints: the checkpoints left on disk
RotateCheckpoints(cks, best) ==
    LET sorted == SortedCheckpoints(cks, best)
        n == Len(sorted)
        limit == IF best # 0 /\ SaveTotalLimit = 1 /\ sorted[n] # best
                 THEN 2 ELSE SaveTotalLimit
        ndel == IF n - limit > 0 THEN n - limit ELSE 0
        kept == { sorted[i] : i \in (ndel + 1)..n }
        IsKept(x) == x \in kept
    IN  IF SaveTotalLimit <= 0 \/ n <= SaveTotalLimit THEN cks
        ELSE SelectSeq(cks, IsKept)

\* load_best_model_at_end=True: the weights held after training
LoadBest(m, best, cks) ==
    IF best # 0 /\ (\E i \in DOMAIN cks : cks[i] = best) THEN best ELSE m

\* the inner loop goes on while epochs remain and no callback asked to stop
TrainingGoesOn == epoch < epochs /\ ~should_stop

\* -------------------------------------------------- fine-tuner steps
Exit(status, cause, exc) ==
    /\ pc' = "exited"
    /\ exitStatus' = status
    /\ exitCause' = cause
    /\ raised' = exc

Continue(next) ==
    /\ pc' = next
    /\ UNCHANGED <<exitStatus, exitCause, raised>>

trainvars == <<epoch, f1hist, best_metric, best_ckpt, ckpts, patience_counter,
               should_stop>>

\* the try/except ImportError around the module-level imports
ImportGuard ==
    /\ pc = "import"
    /\ IF missing \cap GuardedLibs # {}
       THEN /\ out' = out \cup {"missing_deps"}
            /\ Exit(1, "missing_deps", "none")
       ELSE /\ out' = out
            /\ Continue("main")
    /\ UNCHANGED <<notFt, missing, done, epochs, file, data, response, train_len,
                   val_len, model, saved, trainvars>>

\* main: argument parsing, banner, device selection
ParseArgs ==
    /\ pc = "main"
    /\ \E e \in 1..MaxEpochs : epochs' = e
    /\ done' = done \cup {"parse_args"}
    /\ out' = out \cup {"banner"}
    /\ Continue("load_model")
    /\ UNCHANGED <<notFt, missing, file, data, response, train_len, val_len, model,
                   saved, trainvars>>

\* main: AutoTokenizer / AutoModelForSequenceClassification.from_pretrained
LoadBaseModel ==
    /\ pc = "load_model"
    /\ \E ok \in BOOLEAN :
        IF ok
        THEN /\ done' = done \cup {"load_model"}
             /\ Continue("load_data")
        ELSE /\ done' = done
             /\ Exit(1, "exception", "OSError")
    /\ out' = out \cup {"loading_base_model"}
    /\ UNCHANGED <<notFt, missing, epochs, file, data, response, train_len, val_len,
                   model, saved, trainvars>>

\* load_training_data up to the prompt
LoadTrainingData ==
    /\ pc = "load_data"
    /\ \E exists \in BOOLEAN, f \in DatasetFiles :
        IF ~exists
        THEN /\ out' = out \cup {"loading_data", "data_not_found"}
             /\ done' = done \cup {"check_exists"}
             /\ Exit(1, "missing_dataset", "none")
             /\ UNCHANGED <<file, data>>
        ELSE /\ file' = f
             /\ IF ParseFails(f)
                THEN /\ out' = out \cup {"loading_data"}
                     /\ done' = done \cup {"check_exists", "read_file"}
                     /\ Exit(1, "exception", "JSONDecodeError")
                     /\ data' = data
                ELSE /\ data' = Parsed(f)
                     /\ IF Len(Parsed(f)) < MinExamples
                        THEN /\ out' = out \cup {"loading_data", "low_data_warning"}
                             /\ done' = done \cup {"check_exists", "read_file"}
                             /\ Continue("prompt")
                        ELSE /\ out' = out \cup {"loading_data"}
                             /\ done' = done \cup {"check_exists", "read_file",
                                                   "data_returned"}
                             /\ Continue("stats")
    /\ UNCHANGED <<notFt, missing, epochs, response, train_len, val_len, model, saved,
                   trainvars>>

\* load_training_data: input() returns the operator's line
AnswerPrompt ==
    /\ pc = "prompt"
    /\ \E r \in Responses :
        /\ response' = r
        /\ IF Proceeds(r)
           THEN /\ done' = done \cup {"prompt", "data_returned"}
                /\ Continue("stats")
           ELSE /\ done' = done \cup {"prompt"}
                /\ Exit(0, "declined", "none")
    /\ UNCHANGED <<notFt, missing, out, epochs, file, data, train_len, val_len, model,
                   saved, trainvars>>

\* load_training_data: input() on a closed standard input
PromptEOF ==
    /\ pc = "prompt"
    /\ done' = done \cup {"prompt"}
    /\ Exit(1, "exception", "EOFError")
    /\ UNCHANGED <<notFt, missing, out, epochs, file, data, response, train_len,
                   val_len, model, saved, trainvars>>

\* main: totals and class ratio
ClassStats ==
    /\ pc = "stats"
    /\ IF negative(data) = 0
       THEN /\ out' = out \cup {"totals"}
            /\ Exit(1, "exception", "ZeroDivisionError")
       ELSE /\ out' = out \cup {"totals", "class_ratio"}
            /\ Continue("prepare")
    /\ UNCHANGED <<notFt, missing, done, epochs, file, data, response, train_len,
                   val_len, model, saved, trainvars>>

\* main: prepare_dataset(data, tokenizer) and the two sizes printed
PrepareDataset ==
    /\ pc = "prepare"
    /\ IF NTrain(Len(data)) = 0
       THEN /\ Exit(1, "exception", "ValueError")
            /\ UNCHANGED <<train_len, val_len, out>>
       ELSE /\ train_len' = NTrain(Len(data))
            /\ val_len' = NTest(Len(data))
            /\ out' = out \cup {"split_sizes"}
            /\ Continue("build_trainer")
    /\ done' = done \cup {"prepare_dataset"}
    /\ UNCHANGED <<notFt, missing, epochs, file, data, response, model, saved,
                   trainvars>>

\* main: TrainingArguments, Trainer, EarlyStoppingCallback
BuildTrainer ==
    /\ pc = "build_trainer"
    /\ done' = done \cup {"build_trainer"}
    /\ out' = out \cup {"training_banner"}
    /\ Continue("train")
    /\ UNCHANGED <<notFt, missing, epochs, file, data, response, train_len, val_len,
                   model, saved, trainvars>>

\* trainer.train(): one epoch, its evaluation, the callbacks, the checkpoint
TrainEpoch ==
    /\ pc = "train"
    /\ TrainingGoesOn
    /\ epoch' = epoch + 1
    /\ model' = epoch + 1
    /\ done' = done \cup {"train_step"}
    /\ IF "sklearn" \in missing
       THEN /\ Exit(1, "exception", "ImportError")
            /\ UNCHANGED <<f1hist, best_metric, best_ckpt, ckpts,
                           patience_counter, should_stop>>
       ELSE \E f \in F1Levels :
            LET counter == IF Improves(f, best_metric) THEN 0
                           ELSE patience_counter + 1
                newbest == IF Improves(f, best_metric) THEN epoch + 1
                           ELSE best_ckpt
            IN  /\ f1hist' = Append(f1hist, f)
                /\ patience_counter' = counter
                /\ should_stop' = (should_stop \/ counter >= Patience)
                /\ best_metric' = IF Improves(f, best_metric) THEN f
                                  ELSE best_metric
                /\ best_ckpt' = newbest
                /\ ckpts' = RotateCheckpoints(Append(ckpts, epoch + 1), newbest)
                /\ Continue("train")
    /\ UNCHANGED <<notFt, missing, out, epochs, file, data, response, train_len,
                   val_len, saved>>

\* trainer.train(): the loop has ended, the best checkpoint is loaded
TrainEnd ==
    /\ pc = "train"
    /\ ~TrainingGoesOn
    /\ model' = LoadBest(model, best_ckpt, ckpts)
    /\ done' = done \cup {"train_end"}
    /\ Continue("evaluate")
    /\ UNCHANGED <<notFt, missing, out, epochs, file, data, response, train_len,
                   val_len, saved, trainvars>>

\* main: trainer.evaluate() and the metrics printed
FinalEvaluate ==
    /\ pc = "evaluate"
    /\ done' = done \cup {"final_eval"}
    /\ out' = out \cup {"final_metrics"}
    /\ patience_counter' = IF Improves(f1hist[model], best_metric) THEN 0
                           ELSE patience_counter + 1
    /\ Continue("save")
    /\ UNCHANGED <<notFt, missing, epochs, file, data, response, train_len, val_len,
                   model, saved, epoch, f1hist, best_metric, best_ckpt, ckpts,
                   should_stop>>

\* main: trainer.save_model, tokenizer.save_pretrained, the closing messages
SaveModel ==
    /\ pc = "save"
    /\ saved' = model
    /\ done' = done \cup {"save"}
    /\ out' = out \cup {"saved"}
    /\ Exit(0, "completed", "none")
    /\ UNCHANGED <<notFt, missing, epochs, file, data, response, train_len, val_len,
                   model, trainvars>>

FtStart ==
    /\ pc = "import"
    /\ exitStatus = 0
    /\ exitCause = "none"
    /\ raised = "none"
    /\ done = {}
    /\ out = {}
    /\ epochs = 0
    /\ file = <<>>
    /\ data = <<>>
    /\ response = <<>>
    /\ train_len = 0
    /\ val_len = 0
    /\ epoch = 0
    /\ f1hist = <<>>
    /\ best_metric = -1
    /\ best_ckpt = 0
    /\ ckpts = <<>>
    /\ patience_counter = 0
    /\ should_stop = FALSE
    /\ model = 0
    /\ saved = -1

FtNext ==
    \/ ImportGuard
    \/ ParseArgs
    \/ LoadBaseModel
    \/ LoadTrainingData
    \/ AnswerPrompt
    \/ PromptEOF
    \/ ClassStats
    \/ PrepareDataset
    \/ BuildTrainer
    \/ TrainEpoch
    \/ TrainEnd
    \/ FinalEvaluate
    \/ SaveModel

\* ==================================================== fine-tuner claims
NonBlankCount(f) == Cardinality({ i \in DOMAIN f : f[i].kind # "blank" })
Affirmative == { <<"y">>, <<"Y">> }
FileAccepted == "read_file" \in done /\ ~ParseFails(file)

\* C1 (as stated): when the dataset file does not exist, the run ends with
\* the missing-dataset error before the base tokenizer/model is loaded.
C1_MissingDatasetBeforeModelLoad ==
    exitCause = "missing_dataset" => "load_model" \notin done

\* C2: a file with fewer than 20 non-blank lines gets the warning and the
\* prompt; training and the save happen only after an answer that lower-cases
\* to "y"; any other answer ends the process with status 0; a file with 20 or
\* more non-blank lines gets no prompt and its data is returned.
C2_LowDataNeedsConfirmation ==
    /\ (FileAccepted /\ NonBlankCount(file) < MinExamples)
        => /\ "low_data_warning" \in out
           /\ pc = "prompt" \/ "prompt" \in done
           /\ ("train_step" \in done \/ "save" \in done \/ "data_returned" \in done)
                => response \in Affirmative
    /\ ("prompt" \in done /\ response \notin Affirmative /\ raised # "EOFError")
        => /\ pc = "exited" /\ exitStatus = 0 /\ exitCause = "declined"
           /\ done \cap {"data_returned", "prepare_dataset", "train_step", "save"} = {}
    /\ (FileAccepted /\ NonBlankCount(file) >= MinExamples)
        => /\ "prompt" \notin done /\ pc # "prompt"
           /\ "low_data_warning" \notin out
           /\ "data_returned" \in done
           /\ Len(data) = NonBlankCount(file)

C2_Witness ==
    /\ FileAccepted /\ NonBlankCount(file) < MinExamples
    /\ response = <<"Y">> /\ "save" \in done

\* C4 (as stated): when any library the script depends on is missing, the
\* process reports it and halts with status 1 before any other work.
C4_MissingLibraryHaltsFirst ==
    missing # {} => /\ done = {}
                    /\ pc = "exited" => exitCause = "missing_deps" /\ exitStatus = 1

\* C7: one evaluation per epoch; training does not go on after two
\* consecutive rounds without a better F1 and otherwise runs all epochs; at
\* most 2 checkpoints are on disk; after training the model holds, and the
\* save writes, the weights of the first epoch with the best F1, whose
\* checkpoint is on disk throughout.
Improved(k) == k = 1 \/ f1hist[k] > SeqMax(SubSeq(f1hist, 1, k - 1))
Stale(k) == k >= 2 /\ ~Improved(k) /\ ~Improved(k - 1)
BestEpoch == CHOOSE k \in 1..Len(f1hist) :
                /\ f1hist[k] = SeqMax(f1hist)
                /\ \A j \in 1..(k - 1) : f1hist[j] < f1hist[k]
OnDisk(k) == \E i \in DOMAIN ckpts : ckpts[i] = k

C7_TrainingLoop ==
    raised # "ImportError" =>
        /\ Len(f1hist) = epoch
        /\ \A k \in 1..(epoch - 1) : ~Stale(k)
        /\ (pc = "train" /\ epoch >= 1 /\ Stale(epoch)) => ~TrainingGoesOn
        /\ "train_end" \in done => epoch = epochs \/ Stale(epoch)
        /\ Len(ckpts) <= 2
        /\ \A i, j \in DOMAIN ckpts : i < j => ckpts[i] < ckpts[j]
        /\ epoch >= 1 => OnDisk(BestEpoch) /\ OnDisk(epoch)
        /\ "train_end" \in done => model = BestEpoch
        /\ "save" \in done => saved = BestEpoch

C7_Witness ==
    /\ "save" \in done /\ epoch = 3 /\ epoch < epochs
    /\ saved = 1 /\ ckpts = <<1, 3>>

\* C10: when every example of the returned data has label 1, main ends with
\* an unhandled ZeroDivisionError after the model and the data are loaded,
\* and dataset preparation, training and the save never happen; a run that
\* reaches dataset preparation has an example whose label is not 1.
AllLabelOne == \A i \in DOMAIN data : data[i].label = 1

C10_AllPositiveDividesByZero ==
    /\ ("data_returned" \in done /\ AllLabelOne)
        => /\ done \cap {"prepare_dataset", "build_trainer", "train_step", "save"} = {}
           /\ saved = -1
           /\ "load_model" \in done
           /\ pc = "stats" \/ ( /\ pc = "exited" /\ exitStatus = 1
                                /\ raised = "ZeroDivisionError"
                                /\ "class_ratio" \notin out )
    /\ (pc = "prepare" \/ "prepare_dataset" \in done) => ~AllLabelOne

C10_Witness ==
    /\ raised = "ZeroDivisionError" /\ Len(data) >= MinExamples /\ AllLabelOne

\* =========================================================== converter
ConvLibs == {"transformers", "optimum", "torch"}

RECURSIVE Pow2(_)
Pow2(k) == IF k = 0 THEN 1 ELSE 2 * Pow2(k - 1)

\* test_texts, by position in the list
TestTexts == <<"hilarious", "quarterly_report", "chicken_road">>

LogitRows == { <<a, b>> : a \in 0..MaxLogit, b \in 0..MaxLogit }

\* torch.argmax(logits, dim=1).item(): the first largest entry, 0-based
ArgMax(row) == IF row[2] > row[1] THEN 1 ELSE 0

\* model.config.id2label
id2label(k) == IF k = 1 THEN "HUMOR" ELSE "NO_HUMOR"

\* a slip: the logit itself is read, not the probability
RawScore(row, k) == [num |-> Pow2(row[k + 1]), den |-> 1]

\* softmax(logits, dim=1)[0][k] as a fraction; the exponential is taken to
\* base 2, which keeps the order and the normalisation of base e
Softmax(row, k) ==
    [num |-> Pow2(row[k + 1]), den |-> Pow2(row[1]) + Pow2(row[2])]

\* a slip: the handler reports success
HandlerExitsZero == 1 - 1

\* sys.exit(1) of the except Exception handler
HandlerExitStatus == 1

CExit(status) ==
    /\ cpc' = "exited"
    /\ cexit' = status

\* except Exception as e: message, traceback.print_exc(), sys.exit(1)
Handler(step) ==
    /\ cout' = cout \cup {"error_message", "traceback"}
    /\ craised' = step
    /\ chandled' = TRUE
    /\ CExit(HandlerExitStatus)

\* an exception no handler encloses: the interpreter prints the traceback
Unhandled(step) ==
    /\ cout' = cout \cup {"traceback"}
    /\ craised' = step
    /\ chandled' = FALSE
    /\ CExit(1)

\* convert_model: the guarded imports
CImport ==
    /\ cpc = "import"
    /\ IF cmissing # {}
       THEN /\ cout' = cout \cup {"missing_package"}
            /\ CExit(1)
       ELSE /\ cout' = cout \cup {"imports_ok"}
            /\ cpc' = "mkdir"
            /\ cexit' = cexit
    /\ UNCHANGED <<notConv, cmissing, cdone, csaved, cprinted, craised, chandled>>

\* convert_model: OUTPUT_DIR.mkdir(parents=True, exist_ok=True)
CMkdir ==
    /\ cpc = "mkdir"
    /\ \E ok \in BOOLEAN :
        IF ok
        THEN /\ cdone' = cdone \cup {"mkdir"}
             /\ cout' = cout \cup {"converting"}
             /\ cpc' = "load"
             /\ UNCHANGED <<cexit, craised, chandled>>
        ELSE /\ cdone' = cdone
             /\ Unhandled("mkdir")
    /\ UNCHANGED <<notConv, cmissing, csaved, cprinted>>

\* step 1: tokenizer and original model
CLoad ==
    /\ cpc = "load"
    /\ \E ok \in BOOLEAN :
        IF ok
        THEN /\ cdone' = cdone \cup {"load"}
             /\ cout' = cout \cup {"loaded"}
             /\ cpc' = "export"
             /\ UNCHANGED <<cexit, craised, chandled>>
        ELSE /\ cdone' = cdone
             /\ Handler("load")
    /\ UNCHANGED <<notConv, cmissing, csaved, cprinted>>

\* step 2: ORTModelForSequenceClassification.from_pretrained(export=True)
CExport ==
    /\ cpc = "export"
    /\ \E ok \in BOOLEAN :
        IF ok
        THEN /\ cdone' = cdone \cup {"export"}
             /\ cout' = cout \cup {"converted"}
             /\ cpc' = "save"
             /\ UNCHANGED <<cexit, craised, chandled>>
        ELSE /\ cdone' = cdone
             /\ Handler("export")
    /\ UNCHANGED <<notConv, cmissing, csaved, cprinted>>

\* step 3: onnx_model.save_pretrained, then tokenizer.save_pretrained
CSave ==
    /\ cpc = "save"
    /\ \E written \in {{}, {"model"}, {"model", "tokenizer"}} :
        /\ csaved' = written
        /\ IF written = {"model", "tokenizer"}
           THEN /\ cdone' = cdone \cup {"save"}
                /\ cout' = cout \cup {"saved"}
                /\ cpc' = "smoke"
                /\ UNCHANGED <<cexit, craised, chandled>>
           ELSE /\ cdone' = cdone
                /\ Handler("save")
    /\ UNCHANGED <<notConv, cmissing, cprinted>>

\* step 4: one pass of the loop over test_texts
CSmoke ==
    /\ cpc = "smoke"
    /\ Len(cprinted) < Len(TestTexts)
    /\ \/ \E logits \in LogitRows :
            LET predicted_class == ArgMax(logits)
            IN  /\ cprinted' = Append(cprinted,
                        [text |-> TestTexts[Len(cprinted) + 1],
                         logits |-> logits,
                         label |-> id2label(predicted_class),
                         confidence |-> Softmax(logits, predicted_class)])
                /\ cout' = cout \cup {"prediction"}
                /\ UNCHANGED <<cpc, cexit, craised, chandled>>
       \/ /\ Handler("smoke")
          /\ cprinted' = cprinted
    /\ UNCHANGED <<notConv, cmissing, cdone, csaved>>

\* the loop is over: closing messages, convert_model returns
CFinish ==
    /\ cpc = "smoke"
    /\ Len(cprinted) = Len(TestTexts)
    /\ cdone' = cdone \cup {"smoke"}
    /\ cout' = cout \cup {"complete"}
    /\ CExit(0)
    /\ UNCHANGED <<notConv, cmissing, csaved, cprinted, craised, chandled>>

ConvStart ==
    /\ cpc = "import"
    /\ cexit = 0
    /\ cdone = {}
    /\ cout = {}
    /\ csaved = {}
    /\ cprinted = <<>>
    /\ craised = "none"
    /\ chandled = FALSE

ConvNext ==
    \/ CImport
    \/ CMkdir
    \/ CLoad
    \/ CExport
    \/ CSave
    \/ CSmoke
    \/ CFinish

\* ===================================================== converter claims
\* C3 (as stated): an exception of any pipeline step, the creation of the
\* output directory included, is caught by the top-level handler, which
\* prints the message and the stack trace and exits with status 1; the exit
\* status is 0 exactly when no dependency is missing and no step raised.
C3_EveryExceptionHandled ==
    cpc = "exited" =>
        /\ craised # "none" => /\ chandled
                               /\ {"error_message", "traceback"} \subseteq cout
                               /\ cexit = 1
        /\ cexit = 0 <=> (cmissing = {} /\ craised = "none")

InUnit(c) == c.num >= 0 /\ c.den > 0 /\ c.num <= c.den

PredictionOk(i) ==
    LET p == cprinted[i]
        k == IF p.label = "HUMOR" THEN 1 ELSE 0
    IN  /\ p.text = TestTexts[i]
        /\ p.label \in {"HUMOR", "NO_HUMOR"}
        /\ \A j \in 1..2 : p.logits[k + 1] >= p.logits[j]
        /\ InUnit(p.confidence)
        /\ p.confidence.num * (Pow2(p.logits[1]) + Pow2(p.logits[2]))
             = p.confidence.den * Pow2(p.logits[k + 1])

\* C8 (as stated): a run that reaches the smoke test prints exactly three
\* predictions, one label and one confidence in [0,1] for each sentence.
C8_ThreePredictionsOnceReached ==
    ("save" \in cdone /\ cpc = "exited")
        => Len(cprinted) = 3 /\ \A i \in 1..3 : PredictionOk(i)

\* C8 (amended): the smoke test starts only after model and tokenizer are
\* saved; each sentence processed, in list order, prints one label and one
\* confidence, the softmax probability of the arg-max class, in [0,1]; a run
\* whose smoke test raises nothing prints exactly three predictions, and one
\* in which a sentence raises prints fewer.
C8_SmokePredictions ==
    /\ (cpc = "smoke" \/ Len(cprinted) > 0 \/ craised = "smoke")
        => csaved = {"model", "tokenizer"} /\ "save" \in cdone
    /\ Len(cprinted) <= 3
    /\ \A i \in DOMAIN cprinted : PredictionOk(i)
    /\ (cpc = "exited" /\ "save" \in cdone /\ craised = "none")
        => Len(cprinted) = 3 /\ cexit = 0
    /\ craised = "smoke" => Len(cprinted) < 3

C8_Witness ==
    /\ cpc = "exited" /\ cexit = 0 /\ Len(cprinted) = 3
    /\ cprinted[1].label = "HUMOR" /\ cprinted[2].label = "NO_HUMOR"
    /\ cprinted[1].confidence = [num |-> 4, den |-> 5]

\* C9 (as stated): once model and tokenizer are persisted, the exit status
\* is 0 whatever the smoke test does, a failing sentence included.
C9_SmokeNeverChangesExit ==
    (cpc = "exited" /\ csaved = {"model", "tokenizer"}) => cexit = 0

\* C9 (amended): once model and tokenizer are persisted, the labels and
\* confidences printed do not change the exit status, which is 0 when no
\* sentence raises; a sentence that raises is caught by the handler and the
\* exit status is 1, the persisted artifacts staying in place.
C9_SmokeOutcome ==
    (cpc = "exited" /\ csaved = {"model", "tokenizer"}) =>
        /\ craised \in {"none", "smoke"}
        /\ craised = "none" => cexit = 0 /\ Len(cprinted) = 3
        /\ craised = "smoke" => cexit = 1 /\ chandled /\ "traceback" \in cout

C9_Witness ==
    /\ cpc = "exited" /\ csaved = {"model", "tokenizer"}
    /\ craised = "smoke" /\ Len(cprinted) = 2 /\ cexit = 1

\* ===================================================== compute_metrics
\* fractions, kept as numerator and denominator
Frac(a, b) == [num |-> a, den |-> b]
FEq(x, y) == x.num * y.den = y.num * x.den
FMul(x, y) == Frac(x.num * y.num, x.den * y.den)
FAdd(x, y) == Frac(x.num * y.den + y.num * x.den, x.den * y.den)
FDiv(x, y) == Frac(x.num * y.den, x.den * y.num)

Count(S) == Cardinality(S)

\* sklearn.metrics, average='binary', pos_label=1, zero_division -> 0
accuracy_score(y_true, y_pred) ==
    Frac(Count({ i \in DOMAIN y_true : y_true[i] = y_pred[i] }), Len(y_true))

TruePos(y_true, y_pred)  == Count({ i \in DOMAIN y_true : y_pred[i] = 1 /\ y_true[i] = 1 })
FalsePos(y_true, y_pred) == Count({ i \in DOMAIN y_true : y_pred[i] = 1 /\ y_true[i] # 1 })
FalseNeg(y_true, y_pred) == Count({ i \in DOMAIN y_true : y_pred[i] # 1 /\ y_true[i] = 1 })

precision_score(y_true, y_pred) ==
    LET tp == TruePos(y_true, y_pred)
        fp == FalsePos(y_true, y_pred)
    IN  IF tp + fp = 0 THEN Frac(0, 1) ELSE Frac(tp, tp + fp)

recall_score(y_true, y_pred) ==
    LET tp == TruePos(y_true, y_pred)
        fn == FalseNeg(y_true, y_pred)
    IN  IF tp + fn = 0 THEN Frac(0, 1) ELSE Frac(tp, tp + fn)

f1_score(y_true, y_pred) ==
    LET tp == TruePos(y_true, y_pred)
        fp == FalsePos(y_true, y_pred)
        fn == FalseNeg(y_true, y_pred)
    IN  IF 2 * tp + fp + fn = 0 THEN Frac(0, 1)
        ELSE Frac(2 * tp, 2 * tp + fp + fn)

\* a slip: the two arguments of the sklearn calls exchanged
compute_metrics_swapped(p) ==
    LET predictions == [i \in DOMAIN p |-> ArgMax(p[i].scores)]
        labels == [i \in DOMAIN p |-> p[i].label]
    IN  [accuracy  |-> accuracy_score(predictions, labels),
         f1        |-> f1_score(predictions, labels),
         precision |-> precision_score(predictions, labels),
         recall    |-> recall_score(predictions, labels)]

\* predictions = predictions.argmax(axis=-1), then the four scores
compute_metrics(p) ==
    LET predictions == [i \in DOMAIN p |-> ArgMax(p[i].scores)]
        labels == [i \in DOMAIN p |-> p[i].label]
    IN  [accuracy  |-> accuracy_score(labels, predictions),
         f1        |-> f1_score(labels, predictions),
         precision |-> precision_score(labels, predictions),
         recall    |-> recall_score(labels, predictions)]

ScoreRows == { <<0, 1>>, <<1, 0>>, <<1, 1>> }
EvalRows == [scores : ScoreRows, label : {0, 1}]
EvalPreds == UNION { [1..n -> EvalRows] : n \in 1..MaxEval }
NoMetrics == [accuracy |-> Frac(0, 1), f1 |-> Frac(0, 1),
              precision |-> Frac(0, 1), recall |-> Frac(0, 1)]

MetricsStart == eval_pred = <<>> /\ metrics = NoMetrics /\ mpc = "off"

MetricsInit ==
    /\ eval_pred \in EvalPreds
    /\ metrics = NoMetrics
    /\ mpc = "ready"

ComputeMetrics ==
    /\ mpc = "ready"
    /\ metrics' = compute_metrics(eval_pred)
    /\ mpc' = "done"
    /\ UNCHANGED <<notMetrics, eval_pred>>

\* C6: the prediction is the arg-max class; accuracy = (TP+TN)/N, precision
\* = TP/(TP+FP), recall = TP/(TP+FN), F1 = 2*precision*recall over
\* precision+recall, label 1 positive, wherever the quotient is defined;
\* predictions [1,0,1,1] against labels [1,0,0,1] give 3/4, 2/3, 1 and 4/5.
Pred(i) == IF eval_pred[i].scores[2] > eval_pred[i].scores[1] THEN 1 ELSE 0
Truth(i) == eval_pred[i].label
TP == Count({ i \in DOMAIN eval_pred : Pred(i) = 1 /\ Truth(i) = 1 })
TN == Count({ i \in DOMAIN eval_pred : Pred(i) = 0 /\ Truth(i) = 0 })
FP == Count({ i \in DOMAIN eval_pred : Pred(i) = 1 /\ Truth(i) = 0 })
FN == Count({ i \in DOMAIN eval_pred : Pred(i) = 0 /\ Truth(i) = 1 })
IsExample ==
    /\ [i \in DOMAIN eval_pred |-> Pred(i)] = <<1, 0, 1, 1>>
    /\ [i \in DOMAIN eval_pred |-> Truth(i)] = <<1, 0, 0, 1>>

C6_StandardMetrics ==
    mpc = "done" =>
        LET P == Frac(TP, TP + FP)
            R == Frac(TP, TP + FN)
        IN  /\ TP + TN + FP + FN = Len(eval_pred)
            /\ FEq(metrics.accuracy, Frac(TP + TN, Len(eval_pred)))
            /\ TP + FP > 0 => FEq(metrics.precision, P)
            /\ TP + FN > 0 => FEq(metrics.recall, R)
            /\ TP > 0 => FEq(metrics.f1, FDiv(FMul(Frac(2, 1), FMul(P, R)), FAdd(P, R)))
            /\ \A k \in {"accuracy", "f1", "precision", "recall"} : metrics[k].den > 0
            /\ IsExample => /\ FEq(metrics.accuracy, Frac(3, 4))
                            /\ FEq(metrics.precision, Frac(2, 3))
                            /\ FEq(metrics.recall, Frac(1, 1))
                            /\ FEq(metrics.f1, Frac(4, 5))

C6_Witness ==
    /\ mpc = "done" /\ IsExample
    /\ metrics.precision = Frac(2, 3) /\ metrics.recall = Frac(2, 2)

\* ===================================================== prepare_dataset
Perms(n) == { f \in [1..n -> 1..n] : \A i, j \in 1..n : f[i] = f[j] => i = j }

Examples == UNION { [1..n -> [text : {"t"}, label : {0, 1}]] : n \in 0..MaxData }

\* Dataset.from_dict, then dataset.map(tokenize_function): one row per
\* example, in order, with the token ids padded or truncated to 128
Tokenized(d) == [i \in DOMAIN d |->
                    [row |-> i, text |-> d[i].text, label |-> d[i].label,
                     input_ids |-> 128]]

\* Dataset.train_test_split(test_size, seed): the first n_test rows of the
\* permutation are the test set, the rest the training set; the permutation
\* is the seeded generator's, or a fresh one when no seed is given
TrainTestSplit(ds, seed, fresh) ==
    LET n == Len(ds)
        perm == IF seed = 0 THEN fresh ELSE seeded
    IN  [test  |-> [j \in 1..NTest(n) |-> ds[perm[j]]],
         train |-> [j \in 1..NTrain(n) |-> ds[perm[NTest(n) + j]]]]

\* a slip: the split is not seeded
prepare_dataset_unseeded(d, fresh) ==
    LET split == TrainTestSplit(Tokenized(d), 0, fresh)
    IN  <<split.train, split.test>>

\* prepare_dataset(data, tokenizer, val_split=0.1)
prepare_dataset(d, fresh) ==
    LET split == TrainTestSplit(Tokenized(d), Seed, fresh)
    IN  <<split.train, split.test>>

SplitStart == examples = <<>> /\ seeded = <<>> /\ splits = <<>> /\ spc = "off"

SplitInit ==
    /\ examples \in Examples
    /\ seeded \in Perms(Len(examples))
    /\ splits = <<>>
    /\ spc = "ready"

\* one run of prepare_dataset on the list
Prepare ==
    /\ spc = "ready"
    /\ Len(splits) < 2
    /\ IF NTrain(Len(examples)) = 0
       THEN /\ spc' = "error"
            /\ splits' = splits
       ELSE /\ \E fresh \in Perms(Len(examples)) :
                splits' = Append(splits, prepare_dataset(examples, fresh))
            /\ spc' = spc
    /\ UNCHANGED <<notSplit, examples, seeded>>

\* C5: every input example is in exactly one of the train and validation
\* partitions (no overlap, no omission, the sizes add up to the number of
\* examples), and two runs on the same list give the same two partitions.
Rows(part) == { part[j].row : j \in DOMAIN part }

IsPartition(r) ==
    LET train == r[1]
        val == r[2]
    IN  /\ Rows(train) \cap Rows(val) = {}
        /\ Rows(train) \cup Rows(val) = DOMAIN examples
        /\ Len(train) + Len(val) = Len(examples)
        /\ Cardinality(Rows(train)) = Len(train)
        /\ Cardinality(Rows(val)) = Len(val)
        /\ \A j \in DOMAIN train : /\ train[j].text = examples[train[j].row].text
                                   /\ train[j].label = examples[train[j].row].label
        /\ \A j \in DOMAIN val : /\ val[j].text = examples[val[j].row].text
                                 /\ val[j].label = examples[val[j].row].label

C5_SplitIsPartition ==
    /\ \A k \in DOMAIN splits : IsPartition(splits[k])
    /\ Len(splits) = 2 => splits[1] = splits[2]

C5_Witness ==
    /\ Len(splits) = 2 /\ Len(examples) = 4
    /\ Len(splits[1][2]) = 1 /\ splits[1][2][1].row = 3
    /\ splits[1][1][1].row = 4

\* ====================================================== specifications
vars == <<ftvars, cvars, mvars, svars>>

FtOff == missing = {} /\ FtStart
ConvOff == cmissing = {} /\ ConvStart

\* one run of the fine-tuner
Init == (missing \in SUBSET Libs) /\ FtStart /\ ConvOff /\ MetricsStart /\ SplitStart
Next == FtNext
Spec == Init /\ [][Next]_vars

\* one run of the converter
InitConvert ==
    (cmissing \in SUBSET ConvLibs) /\ ConvStart /\ FtOff /\ MetricsStart /\ SplitStart
SpecConvert == InitConvert /\ [][ConvNext]_vars

\* one call of compute_metrics
InitMetrics == MetricsInit /\ FtOff /\ ConvOff /\ SplitStart
SpecMetrics == InitMetrics /\ [][ComputeMetrics]_vars

\* runs of prepare_dataset on one list
InitSplit == SplitInit /\ FtOff /\ ConvOff /\ MetricsStart
SpecSplit == InitSplit /\ [][Prepare]_vars
====
